---- MODULE Spec2Model ----
(***************************************************************************)
(* A model of the react-map-gl-amplify-here-map sample: the App component  *)
(* (src/unnamed/part_001) and the routing Inputs component                 *)
(* (src/react-map-gl-amplify-here-map/src/components/routing/Inputs.js).   *)
(*                                                                         *)
(* The state is React state (useState), refs (useRef), the Hub listener    *)
(* registry, and the promises in flight (reverse geocoding, route          *)
(* calculation, text search).  One action is one handler run to            *)
(* completion: its state updates, the render they cause and the effects    *)
(* that render runs.  The part of an async handler after its await is an   *)
(* action of its own that works on the values the handler closed over.     *)
(***************************************************************************)
EXTENDS Integers, Sequences, FiniteSets, TLC

(***************************************************************************)
(* Bounds of the model.                                                    *)
(***************************************************************************)
\* places (coordinates) the map and the place index know
MaxPlace == 2
\* calculateRoute requests outstanding at a time
MaxRoute == 2
\* Geo.searchByText requests outstanding at a time
MaxSearch == 2
\* Geo.searchByCoordinates requests outstanding at a time when the user
\* waits for the answer before the next click
MaxGeocode == 1
\* Geo.searchByCoordinates requests outstanding at a time when the user
\* clicks again before the answer
MaxClick == MaxGeocode + 1
\* viewports the user pans to
MaxPan == 1
\* departure times the user picks
MaxTime == 1

(***************************************************************************)
(* JavaScript values.  An object is a function from its keys; an array is  *)
(* a sequence whose entries may be holes; text is a sequence of            *)
(* characters.                                                             *)
(***************************************************************************)
Undefined == [jsUndefined |-> TRUE]
Hole == [jsHole |-> TRUE]
EmptyObject == [k \in {} |-> 0]
JsString(t) == [jsString |-> t]
IsString(v) == DOMAIN v = {"jsString"}

\* Object.keys(v) of an object v
ObjectKeys(v) == DOMAIN v

\* v.k, undefined when v has no key k (v a string primitive included)
Get(v, k) == IF k \in DOMAIN v /\ ~IsString(v) THEN v[k] ELSE Undefined

\* {...v, source: src}: undefined spreads to nothing, a string to its characters
SpreadWithSource(v, src) ==
  LET base == IF v = Undefined THEN EmptyObject
              ELSE IF IsString(v) THEN [chars |-> v.jsString]
              ELSE v
  IN [k \in DOMAIN base \cup {"source"} |-> IF k = "source" THEN src ELSE base[k]]

\* arr[i], zero-based; a hole and an index past the end read as undefined
ReadIndex(arr, i) ==
  IF i < 0 \/ i >= Len(arr) \/ arr[i + 1] = Hole THEN Undefined ELSE arr[i + 1]

\* [...arr]: the iterator turns holes into undefined
SpreadArray(arr) == [i \in DOMAIN arr |-> IF arr[i] = Hole THEN Undefined ELSE arr[i]]

\* arr[i] = v, zero-based; writing past the end leaves holes
SetIndex(arr, i, v) ==
  [j \in 1..(IF i + 1 > Len(arr) THEN i + 1 ELSE Len(arr)) |->
     IF j = i + 1 THEN v ELSE IF j > Len(arr) THEN Hole ELSE arr[j]]

\* arr.unshift(v)
Unshift(arr, v) == <<v>> \o arr

RECURSIVE TrimStart(_)
TrimStart(t) == IF t # << >> /\ Head(t) = " " THEN TrimStart(Tail(t)) ELSE t

RECURSIVE TrimEnd(_)
TrimEnd(t) ==
  IF t # << >> /\ t[Len(t)] = " " THEN TrimEnd(SubSeq(t, 1, Len(t) - 1)) ELSE t

\* String.prototype.trim
Trim(t) == TrimEnd(TrimStart(t))

RECURSIVE Join(_)
\* parts.join(", ")
Join(parts) ==
  IF parts = << >> THEN << >>
  ELSE IF Len(parts) = 1 THEN parts[1]
  ELSE parts[1] \o <<",", " ">> \o Join(Tail(parts))

(***************************************************************************)
(* The place index.  Place(p) is the record Geo returns for coordinate p:  *)
(* odd places carry a label, even ones only street and municipality.       *)
(***************************************************************************)
Places == 1..MaxPlace

Place(p) ==
  IF p % 2 = 1
  THEN [geometry |-> [point |-> p], label |-> <<"L", ToString(p)>>]
  ELSE [geometry |-> [point |-> p], street |-> <<"S", ToString(p)>>,
        municipality |-> <<"M", ToString(p)>>]

NoResultFound == JsString("No result found for this address.")

\* Geo.searchByText(text): what the place index answers when it answers
SearchResult(text) ==
  IF text = <<"a">> THEN [i \in 1..MaxPlace |-> Place(i)] ELSE << >>

\* what the user types into a routing input
TypedText == {<<"a">>, <<"b">>, <<" ">>}

(***************************************************************************)
(* Inputs.js                                                               *)
(***************************************************************************)
formatAddress(m) ==
  LET label == Get(m, "label")
      fields == <<"street", "addressNumber", "postalCode", "municipality">>
      present == SelectSeq(fields, LAMBDA k : Get(m, k) # Undefined)
  IN IF label # Undefined /\ label # << >> THEN label
     ELSE Join([i \in DOMAIN present |-> Get(m, present[i])])

(***************************************************************************)
(* AppContext: defaultState, RoutingModesEnum, UnitsEnum.  The nested      *)
(* Weight and Dimensions objects of defaultState.truckOptions live on the  *)
(* heap: a shallow copy { ...truckOptions } shares them.  The field object *)
(* of an options object tells the object of defaultState from a copy a     *)
(* handler made, which React sees as a changed state.                      *)
(***************************************************************************)
RoutingModesEnum == [CAR |-> "Car", TRUCK |-> "Truck", WALKING |-> "Walking"]

UnitsEnum ==
  [METRIC |-> [distance |-> "Kilometers", weight |-> "Kilograms", dimensions |-> "Meters"],
   IMPERIAL |-> [distance |-> "Miles", weight |-> "Pounds", dimensions |-> "Feet"]]

\* data.toUpperCase() of a units name
ToUpperCase(u) == IF u = "metric" THEN "METRIC" ELSE "IMPERIAL"

defaultState ==
  [markers |-> << >>,
   isRouting |-> FALSE,
   route |-> EmptyObject,
   routingMode |-> RoutingModesEnum.CAR,
   truckOptions |-> [object |-> "defaultState", AvoidFerries |-> FALSE, AvoidTolls |-> FALSE,
                     Dimensions |-> "defaultDimensions", Weight |-> "defaultWeight"],
   carOptions |-> [object |-> "defaultState", AvoidFerries |-> FALSE, AvoidTolls |-> FALSE],
   departureTime |-> 0,
   distanceUnit |-> UnitsEnum.METRIC.distance,
   units |-> "metric"]

\* the heap when the module AppContext has been evaluated
InitialHeap ==
  [defaultDimensions |-> [Size |-> 0, Unit |-> UnitsEnum.METRIC.dimensions],
   defaultWeight |-> [Size |-> 0, Unit |-> UnitsEnum.METRIC.weight]]

\* the first viewport of the map
HomeViewport == <<"home">>

HubChannels == {"Viewport", "Markers", "Routing"}

(***************************************************************************)
(* The state.                                                              *)
(***************************************************************************)
VARIABLES
  \* App: useState
  viewport, markers, isRouting, route, routingMode, truckOptions, carOptions,
  departureTime, distanceUnit, units,
  \* App: useRef, useDebounce
  isRouteZoomedRef, isPointZoomed, debouncedViewport,
  \* the objects truckOptions and defaultState.truckOptions point to
  heap,
  \* whether the App is mounted; the Hub's listeners of App, by channel
  mounted, listeners,
  \* promises in flight, in the order they were made; a route or search
  \* request is superseded once a request made after it has succeeded
  pendingGeocode, pendingRoute, pendingSearch,
  \* what the latest made of the requests that succeeded answered, if no
  \* handler has replaced route or suggestions since it was made
  latestRoute, latestSuggestions,
  \* Inputs: useState, useRef, the parent's hasSuggestions, and the
  \* RoutingMenuInput instances (key, value, debouncedValue)
  suggestions, focusedInputIdx, isDirtyRef, hasSuggestions, inputs

vars ==
  <<viewport, markers, isRouting, route, routingMode, truckOptions, carOptions,
    departureTime, distanceUnit, units, isRouteZoomedRef, isPointZoomed,
    debouncedViewport, heap, mounted, listeners, pendingGeocode,
    pendingRoute, pendingSearch, latestRoute, latestSuggestions,
    suggestions, focusedInputIdx, isDirtyRef, hasSuggestions, inputs>>

\* the state as one record, which the handlers below transform; overflow
\* says a bound of the model was passed, rerender that an effect set App state
State ==
  [viewport |-> viewport, markers |-> markers, isRouting |-> isRouting,
   route |-> route, routingMode |-> routingMode, truckOptions |-> truckOptions,
   carOptions |-> carOptions, departureTime |-> departureTime,
   distanceUnit |-> distanceUnit, units |-> units,
   isRouteZoomedRef |-> isRouteZoomedRef, isPointZoomed |-> isPointZoomed,
   debouncedViewport |-> debouncedViewport, heap |-> heap, mounted |-> mounted,
   listeners |-> listeners,
   pendingGeocode |-> pendingGeocode, pendingRoute |-> pendingRoute,
   pendingSearch |-> pendingSearch, latestRoute |-> latestRoute,
   latestSuggestions |-> latestSuggestions,
   suggestions |-> suggestions, focusedInputIdx |-> focusedInputIdx,
   isDirtyRef |-> isDirtyRef, hasSuggestions |-> hasSuggestions,
   inputs |-> inputs, overflow |-> FALSE, rerender |-> FALSE]

\* the step to the state s
Becomes(s) ==
  /\ ~s.overflow
  /\ viewport' = s.viewport
  /\ markers' = s.markers
  /\ isRouting' = s.isRouting
  /\ route' = s.route
  /\ routingMode' = s.routingMode
  /\ truckOptions' = s.truckOptions
  /\ carOptions' = s.carOptions
  /\ departureTime' = s.departureTime
  /\ distanceUnit' = s.distanceUnit
  /\ units' = s.units
  /\ isRouteZoomedRef' = s.isRouteZoomedRef
  /\ isPointZoomed' = s.isPointZoomed
  /\ debouncedViewport' = s.debouncedViewport
  /\ heap' = s.heap
  /\ mounted' = s.mounted
  /\ listeners' = s.listeners
  /\ pendingGeocode' = s.pendingGeocode
  /\ pendingRoute' = s.pendingRoute
  /\ pendingSearch' = s.pendingSearch
  /\ latestRoute' = s.latestRoute
  /\ latestSuggestions' = s.latestSuggestions
  /\ suggestions' = s.suggestions
  /\ focusedInputIdx' = s.focusedInputIdx
  /\ isDirtyRef' = s.isDirtyRef
  /\ hasSuggestions' = s.hasSuggestions
  /\ inputs' = s.inputs

(***************************************************************************)
(* The Hub (@aws-amplify/core): listen appends a listener to the channel,  *)
(* remove drops every listener that is the given callback.  A listener of  *)
(* App is "latest" when it is the handler the latest render of App made    *)
(* and "stale" when an earlier render made it.                             *)
(***************************************************************************)
HubListen(ls, channel, callback) == [ls EXCEPT ![channel] = Append(@, callback)]

HubRemove(ls, channel, callback) ==
  [ls EXCEPT ![channel] = SelectSeq(@, LAMBDA l : l # callback)]

\* App renders again: the handlers of the render before are no longer the latest
Superseded(ls) ==
  [c \in DOMAIN ls |-> [i \in DOMAIN ls[c] |-> "stale"]]

\* the cleanup of the Hub effect of App, run with the handlers of its render
HubCleanup(ls) ==
  HubRemove(HubRemove(HubRemove(ls, "Viewport", "latest"), "Markers", "latest"),
            "Routing", "latest")

\* the Hub effect of App, run with the handlers of its render
HubSubscribe(ls) ==
  HubListen(HubListen(HubListen(ls, "Viewport", "latest"), "Markers", "latest"),
            "Routing", "latest")

\* a Hub effect whose cleanup removed nothing
HubEffectWithoutCleanup(s) ==
  [s EXCEPT !.listeners = HubSubscribe(Superseded(s.listeners))]

\* the effect has no dependency list: after every render of App the cleanup
\* of the render before runs, and then the effect of this render
HubEffect(s) ==
  [s EXCEPT !.listeners = HubSubscribe(Superseded(HubCleanup(s.listeners)))]

\* the channel's event reaches the handler of the latest render
Listening(channel) ==
  /\ mounted
  /\ \E i \in DOMAIN listeners[channel] : listeners[channel][i] = "latest"

\* React unmounts the App (also after an error thrown while rendering or in
\* an effect): the cleanup of the last render's effects runs, and the state
\* of the components is gone; what a promise still in flight does then
\* reaches no state
Unmounted(s) ==
  [s EXCEPT !.mounted = FALSE, !.listeners = HubCleanup(s.listeners),
            !.viewport = HomeViewport, !.debouncedViewport = HomeViewport,
            !.markers = << >>, !.isRouting = FALSE, !.route = EmptyObject,
            !.routingMode = RoutingModesEnum.CAR, !.truckOptions = EmptyObject,
            !.carOptions = EmptyObject, !.departureTime = 0,
            !.distanceUnit = UnitsEnum.METRIC.distance, !.units = "metric",
            !.isRouteZoomedRef = FALSE, !.isPointZoomed = FALSE,
            !.pendingGeocode = << >>, !.pendingRoute = << >>, !.pendingSearch = << >>,
            !.suggestions = << >>, !.focusedInputIdx = -1, !.isDirtyRef = FALSE,
            !.hasSuggestions = FALSE, !.inputs = << >>,
            !.latestRoute = EmptyObject, !.latestSuggestions = << >>]

(***************************************************************************)
(* Inputs.js: the render of Inputs and its RoutingMenuInput children.      *)
(***************************************************************************)
\* the inputs shown for the markers
InputsList(ms, routing) ==
  LET copy == SpreadArray(ms)
  IN IF ReadIndex(copy, 0) = Undefined /\ ~routing THEN SetIndex(copy, 0, EmptyObject)
     ELSE IF routing /\ Len(copy) < 2 THEN Unshift(copy, EmptyObject)
     ELSE copy

\* key={JSON.stringify(marker?.geometry) + isDirtyRef.current || 0}
InputKey(m, dirty) ==
  IF Get(m, "geometry") = Undefined THEN <<"0">>
  ELSE <<"geometry", Get(m, "geometry").point, dirty>>

\* marker={isDirtyRef.current || context.isRouting ? marker : {}}
MarkerProp(m, dirty, routing) == IF dirty \/ routing THEN m ELSE EmptyObject

\* the instance that keeps rendering at position i with key k: the one at the
\* same position if its key is k, else one of that key elsewhere, else none
KeptInstance(old, i, k) ==
  IF i \in DOMAIN old /\ old[i].key = k THEN i
  ELSE IF \E j \in DOMAIN old : old[j].key = k
       THEN CHOOSE j \in DOMAIN old : old[j].key = k
       ELSE 0

\* Inputs renders: each input gets its defaultValue = formatAddress(marker),
\* and one whose key is new is mounted with its value and debounced value at
\* defaultValue; formatAddress(undefined) throws
InputsRender(s) ==
  LET list == InputsList(s.markers, s.isRouting)
      prop(i) == MarkerProp(list[i], s.isDirtyRef, s.isRouting)
  IN IF ~s.mounted THEN s
     ELSE IF \E i \in DOMAIN list : prop(i) = Undefined THEN Unmounted(s)
     ELSE [s EXCEPT !.inputs =
             [i \in DOMAIN list |->
                LET k == InputKey(list[i], s.isDirtyRef)
                    j == KeptInstance(s.inputs, i, k)
                    defaultValue == formatAddress(prop(i))
                IN IF j # 0 THEN [s.inputs[j] EXCEPT !.defaultValue = defaultValue]
                   ELSE [key |-> k, value |-> defaultValue,
                         debouncedValue |-> defaultValue,
                         defaultValue |-> defaultValue]]]

\* searchByText(value, biasPosition) up to its await
searchByText(s, value) ==
  IF Trim(value) = << >> THEN s
  ELSE [s EXCEPT !.pendingSearch = Append(@, [text |-> value, superseded |-> FALSE]),
                 !.overflow = @ \/ Len(s.pendingSearch) >= MaxSearch]

\* handleValueChange(value, biasPosition, idx), idx zero-based
handleValueChange(s, value, idx) ==
  [searchByText(s, value) EXCEPT !.focusedInputIdx = idx, !.isDirtyRef = TRUE]

\* the effect of the RoutingMenuInput at position i
InputEffect(s, i) ==
  IF s.inputs[i].debouncedValue # s.inputs[i].defaultValue
  THEN handleValueChange(s, Trim(s.inputs[i].debouncedValue), i - 1)
  ELSE s

RECURSIVE InputEffectsFrom(_, _)
InputEffectsFrom(s, i) ==
  IF i > Len(s.inputs) THEN s ELSE InputEffectsFrom(InputEffect(s, i), i + 1)

\* App rendered: context.viewportCenter is a new array, so the effect of
\* every RoutingMenuInput runs
InputEffects(s) == InputEffectsFrom(s, 1)

(***************************************************************************)
(* App: the effects.                                                       *)
(***************************************************************************)
\* zoomToRoute(routeBBox, viewport): setViewport to the fitted bounds
zoomToRoute(s, routeBBox) == [s EXCEPT !.viewport = <<"route", routeBBox>>, !.rerender = TRUE]

\* zoomToPoint(lngLat, viewport): setViewport to the point
zoomToPoint(s, lngLat) == [s EXCEPT !.viewport = <<"point", lngLat>>, !.rerender = TRUE]

\* a zoom-to-route effect that did not read isRouteZoomedRef
ZoomToRouteEffectUnflagged(s) ==
  IF s.route # defaultState.route
  THEN zoomToRoute([s EXCEPT !.isRouteZoomedRef = TRUE], s.route.Summary.RouteBBox)
  ELSE s

\* the effect on [route, debouncedViewport, zoomToRoute]
ZoomToRouteEffect(s) ==
  IF s.route # defaultState.route /\ ~s.isRouteZoomedRef
  THEN zoomToRoute([s EXCEPT !.isRouteZoomedRef = TRUE], s.route.Summary.RouteBBox)
  ELSE s

\* a zoom-to-point effect that did not read isPointZoomed
ZoomToPointEffectUnflagged(s) ==
  IF Len(s.markers) = 1
  THEN LET zoomed == [s EXCEPT !.isPointZoomed = TRUE]
       IN IF Get(s.markers[1], "geometry") = Undefined THEN Unmounted(zoomed)
          ELSE zoomToPoint(zoomed, s.markers[1].geometry.point)
  ELSE s

\* the effect on [markers, debouncedViewport, zoomToPoint]; reading
\* markers[0].geometry.point of a marker without geometry throws
ZoomToPointEffect(s) ==
  IF Len(s.markers) = 1 /\ ~s.isPointZoomed
  THEN LET zoomed == [s EXCEPT !.isPointZoomed = TRUE]
       IN IF Get(s.markers[1], "geometry") = Undefined THEN Unmounted(zoomed)
          ELSE zoomToPoint(zoomed, s.markers[1].geometry.point)
  ELSE s

\* markers.every(marker => marker !== undefined && typeof marker === "object"
\*   && Object.keys(marker).length > 0): every skips the holes
EveryMarkerValid(ms) ==
  \A i \in DOMAIN ms :
    ms[i] = Hole \/ (ms[i] # Undefined /\ ObjectKeys(ms[i]) # {})

\* markers.map(marker => marker.geometry.point): map keeps the holes
MarkerPoints(ms) ==
  [i \in DOMAIN ms |-> IF ms[i] = Hole THEN Hole ELSE ms[i].geometry.point]

\* the response of the route calculator to the request req: the route
\* through its positions
RouteResponse(req) == [Summary |-> [RouteBBox |-> req.positions]]

\* route() up to its await: a marker without geometry throws inside the try,
\* which is caught and logged before calculateRoute is called
RouteCall(s) ==
  IF \E i \in DOMAIN s.markers :
       s.markers[i] # Hole /\ Get(s.markers[i], "geometry") = Undefined
  THEN s
  ELSE [s EXCEPT !.pendingRoute =
                   Append(@, [positions |-> MarkerPoints(s.markers), superseded |-> FALSE]),
                 !.overflow = @ \/ Len(s.pendingRoute) >= MaxRoute]

\* the effect on [markers, routingMode, carOptions, truckOptions,
\* departureTime, calculateRoute, distanceUnit]
RouteEffect(s) ==
  IF Len(s.markers) >= 2 /\ EveryMarkerValid(s.markers) THEN RouteCall(s) ELSE s

RouteDeps ==
  {"markers", "routingMode", "carOptions", "truckOptions", "departureTime", "distanceUnit"}

\* a render of App that an effect's setViewport caused: no dependency of the
\* zoom and route effects changed
AppRerender(s) ==
  LET r == InputsRender([s EXCEPT !.rerender = FALSE])
  IN IF ~r.mounted THEN r ELSE HubEffect(InputEffects(r))

\* App renders after a handler changed the state named in changed (by
\* identity), and the effects run, the children's first
AppRender(s, changed) ==
  LET r == InputsRender(s)
      e1 == InputEffects(r)
      e2 == IF changed \cap {"route", "debouncedViewport"} # {}
            THEN ZoomToRouteEffect(e1) ELSE e1
      e3 == IF changed \cap {"markers", "debouncedViewport"} # {}
            THEN ZoomToPointEffect(e2) ELSE e2
      e4 == IF changed \cap RouteDeps # {} THEN RouteEffect(e3) ELSE e3
      e5 == HubEffect(e4)
      e6 == IF e5.rerender THEN AppRerender(e5) ELSE e5
  IN IF ~r.mounted THEN r
     ELSE IF ~e3.mounted THEN e3
     ELSE InputsRender(e6)

\* Inputs alone renders (its own state changed)
InputsOnlyRender(s) == InputsRender(s)

(***************************************************************************)
(* App: the handlers.                                                      *)
(***************************************************************************)
\* the state whose identity differs between a and b
Changed(a, b) ==
  {k \in {"viewport", "markers", "isRouting", "route", "routingMode", "truckOptions",
          "carOptions", "departureTime", "distanceUnit", "units", "debouncedViewport"} :
     a[k] # b[k]}

\* React renders App when a handler changed its state
Commit(s, changed) ==
  IF ~s.mounted \/ changed = {} THEN s ELSE AppRender(s, changed)

resetView(s) ==
  [s EXCEPT !.isRouting = defaultState.isRouting,
            !.markers = defaultState.markers,
            !.route = defaultState.route,
            !.routingMode = defaultState.routingMode,
            !.truckOptions = defaultState.truckOptions,
            !.carOptions = defaultState.carOptions,
            !.departureTime = defaultState.departureTime,
            !.isRouteZoomedRef = FALSE,
            !.isPointZoomed = FALSE,
            !.latestRoute = defaultState.route]

\* { ...options } with newState[key] = value
CopyWith(options, key, value) ==
  [k \in DOMAIN options |->
     IF k = "object" THEN "copy" ELSE IF k = key THEN value ELSE options[k]]

\* the address of the object a changeTruckOptions message carries as data
DataAddress(key) == IF key = "Weight" THEN "dataWeight" ELSE "dataDimensions"

\* heap[address] = object
Store(h, address, object) ==
  [a \in DOMAIN h \cup {address} |-> IF a = address THEN object ELSE h[a]]

\* the changeUnits branch: newState.Weight.Unit and newState.Dimensions.Unit
\* are assigned in the objects the copy shares with truckOptions
changeUnits(s, data) ==
  IF data # s.units
  THEN LET unit == UnitsEnum[ToUpperCase(data)]
           newState == CopyWith(s.truckOptions, "object", "copy")
           h1 == [s.heap EXCEPT ![newState.Weight].Unit = unit.weight]
           h2 == [h1 EXCEPT ![newState.Dimensions].Unit = unit.dimensions]
       IN [s EXCEPT !.distanceUnit = unit.distance, !.heap = h2,
                    !.truckOptions = newState, !.units = data]
  ELSE s

\* a handleRouting whose changeRoutingMode branch kept the options
handleRoutingKeepsOptions(s, event, data, source) ==
  IF event = "startRouting" THEN [s EXCEPT !.isRouting = TRUE]
  ELSE IF event = "endRouting" THEN resetView(s)
  ELSE IF event = "changeRoutingMode" THEN
    IF data # s.routingMode
    THEN [s EXCEPT !.routingMode = data]
    ELSE s
  ELSE IF event = "changeAvoidances" THEN
    IF source = RoutingModesEnum.CAR
    THEN [s EXCEPT !.carOptions = CopyWith(s.carOptions, data.key, data.value)]
    ELSE IF source = RoutingModesEnum.TRUCK
    THEN [s EXCEPT !.truckOptions = CopyWith(s.truckOptions, data.key, data.value)]
    ELSE s
  ELSE IF event = "changeTruckOptions" THEN
    [s EXCEPT !.heap = Store(s.heap, DataAddress(source), data),
              !.truckOptions = CopyWith(s.truckOptions, source, DataAddress(source))]
  ELSE IF event = "changeDepartureTime" THEN
    IF data # s.departureTime THEN [s EXCEPT !.departureTime = data] ELSE s
  ELSE IF event = "changeDistanceUnit" THEN [s EXCEPT !.distanceUnit = data]
  ELSE IF event = "changeUnits" THEN changeUnits(s, data)
  ELSE s

\* handleRouting(message), message = {payload: {event, data}, source}
handleRouting(s, event, data, source) ==
  IF event = "startRouting" THEN [s EXCEPT !.isRouting = TRUE]
  ELSE IF event = "endRouting" THEN resetView(s)
  ELSE IF event = "changeRoutingMode" THEN
    IF data # s.routingMode
    THEN [s EXCEPT !.routingMode = data,
                   !.truckOptions = defaultState.truckOptions,
                   !.carOptions = defaultState.carOptions]
    ELSE s
  ELSE IF event = "changeAvoidances" THEN
    IF source = RoutingModesEnum.CAR
    THEN [s EXCEPT !.carOptions = CopyWith(s.carOptions, data.key, data.value)]
    ELSE IF source = RoutingModesEnum.TRUCK
    THEN [s EXCEPT !.truckOptions = CopyWith(s.truckOptions, data.key, data.value)]
    ELSE s
  ELSE IF event = "changeTruckOptions" THEN
    [s EXCEPT !.heap = Store(s.heap, DataAddress(source), data),
              !.truckOptions = CopyWith(s.truckOptions, source, DataAddress(source))]
  ELSE IF event = "changeDepartureTime" THEN
    IF data # s.departureTime THEN [s EXCEPT !.departureTime = data] ELSE s
  ELSE IF event = "changeDistanceUnit" THEN [s EXCEPT !.distanceUnit = data]
  ELSE IF event = "changeUnits" THEN changeUnits(s, data)
  ELSE s

\* the setMarker branch after the marker is known: ms is the markers the
\* handler closed over
setMarker(s, ms, idx, force, marker, source) ==
  LET newMarkers == SpreadArray(ms)
      entry == SpreadWithSource(marker, source)
  IN IF ReadIndex(newMarkers, idx) # Undefined /\ ~force
     THEN [s EXCEPT !.markers = Unshift(newMarkers, entry)]
     ELSE [s EXCEPT !.markers = SetIndex(newMarkers, idx, entry),
                    !.isPointZoomed = IF idx = 0 THEN FALSE ELSE @]

\* the swapMarkers branch
swapMarkers(s) ==
  [s EXCEPT !.markers =
     IF Len(s.markers) = 1 THEN <<s.markers[1], EmptyObject>>
     ELSE IF Len(s.markers) = 2
          THEN <<ReadIndex(s.markers, 1), ReadIndex(s.markers, 0)>>
          ELSE << >>]

\* handleMarkers(data), data = {payload: {event, data}, source}, up to its await
handleMarkers(s, event, data, source) ==
  IF event = "closeToast" \/ event = "cleanUp" THEN resetView(s)
  ELSE IF event = "swapMarkers" THEN swapMarkers(s)
  ELSE IF event = "setMarker" THEN
    IF data.geocode
    THEN [s EXCEPT !.pendingGeocode =
            Append(@, [markers |-> s.markers, idx |-> data.idx, force |-> data.force,
                       lngLat |-> data.lngLat, source |-> source,
                       isRouting |-> s.isRouting]),
                   !.overflow = @ \/ Len(s.pendingGeocode) >= MaxClick]
    ELSE setMarker(s, s.markers, data.idx, data.force, data.marker, source)
  ELSE s

\* handleViewport(data)
handleViewport(s, event, data) ==
  IF event = "update" THEN [s EXCEPT !.viewport = data] ELSE s

\* Hub.dispatch(channel, ...): the listener of the channel runs, if any
Dispatch(channel, s, handled) == IF Listening(channel) THEN handled ELSE s

\* a handleMapClick without the early return of the cleanUp branch
handleMapClickSetsMarker(s, lngLat) ==
  IF Len(s.markers) \in {0, 1, 2}
  THEN LET data == [idx |-> 0, lngLat |-> lngLat, geocode |-> TRUE,
                    force |-> Len(s.markers) # 1]
       IN Dispatch("Markers", s, handleMarkers(s, "setMarker", data, "map"))
  ELSE s

\* handleMapClick(e), e.lngLat = lngLat
handleMapClick(s, lngLat) ==
  IF Len(s.markers) > 0 /\ ~s.isRouting
  THEN Dispatch("Markers", s, handleMarkers(s, "cleanUp", Undefined, Undefined))
  ELSE IF Len(s.markers) \in {0, 1, 2}
  THEN LET data == [idx |-> 0, lngLat |-> lngLat, geocode |-> TRUE,
                    force |-> Len(s.markers) # 1]
       IN Dispatch("Markers", s, handleMarkers(s, "setMarker", data, "map"))
  ELSE s

(***************************************************************************)
(* Inputs.js: handleResultClick.                                           *)
(***************************************************************************)
\* handleResultClick(result): force stays undefined in routing mode with
\* fewer than two markers
handleResultClick(s, result) ==
  LET cleared == [s EXCEPT !.suggestions = << >>, !.hasSuggestions = FALSE,
                           !.latestSuggestions = << >>]
      force == \/ ~s.isRouting /\ Len(s.markers) = 0
               \/ ~s.isRouting /\ Len(s.markers) = 1
               \/ Len(s.markers) = 2
      data == [idx |-> s.focusedInputIdx, marker |-> result, geocode |-> FALSE,
               force |-> force]
  IN Dispatch("Markers", cleared, handleMarkers(cleared, "setMarker", data, "routingMenu"))

\* the requests still in flight when the i-th has settled; with ok, it
\* succeeded and the requests made before it are superseded
Settled(seq, i, ok) ==
  [j \in 1..(Len(seq) - 1) |->
     IF j < i THEN [seq[j] EXCEPT !.superseded = @ \/ ok] ELSE seq[j + 1]]

\* seq without its i-th element
Without(seq, i) == SubSeq(seq, 1, i - 1) \o SubSeq(seq, i + 1, Len(seq))

(***************************************************************************)
(* The actions: the user's, the timers' and the network's.                 *)
(***************************************************************************)
\* the user clicks the map at place p
MapClick(p) ==
  /\ mounted
  /\ LET s == handleMapClick(State, p)
     IN /\ Len(s.pendingGeocode) <= MaxGeocode
        /\ Becomes(Commit(s, Changed(State, s)))

\* the user clicks the map at place p before the place index has answered
\* the click before
MapClickAgain(p) ==
  /\ mounted
  /\ LET s == handleMapClick(State, p)
     IN /\ Len(s.pendingGeocode) > MaxGeocode
        /\ Becomes(Commit(s, Changed(State, s)))

\* Geo.searchByCoordinates resolves: the rest of the setMarker branch runs
GeocodeResolve(i) ==
  LET r == pendingGeocode[i]
      rest == [State EXCEPT !.pendingGeocode = Without(@, i)]
      s == setMarker(rest, r.markers, r.idx, r.force, Place(r.lngLat), r.source)
  IN Becomes(Commit(s, {"markers"}))

\* Geo.searchByCoordinates rejects: the error is logged, marker stays
\* undefined, and the rest of the setMarker branch runs
GeocodeReject(i) ==
  LET r == pendingGeocode[i]
      rest == [State EXCEPT !.pendingGeocode = Without(@, i)]
      s == setMarker(rest, r.markers, r.idx, r.force, Undefined, r.source)
  IN Becomes(Commit(s, {"markers"}))

\* calculateRoute resolves: the rest of route() runs
RouteResolve(i) ==
  LET r == pendingRoute[i]
      rest == [State EXCEPT !.pendingRoute = Settled(@, i, TRUE),
                            !.latestRoute = IF r.superseded THEN @ ELSE RouteResponse(r)]
      s == [rest EXCEPT !.isRouteZoomedRef = FALSE, !.route = RouteResponse(r)]
  IN Becomes(Commit(s, {"route"}))

\* a catch block that also cleared the route-zoomed flag
RouteRejectClearsZoom(i) ==
  Becomes([State EXCEPT !.pendingRoute = Settled(@, i, FALSE),
                        !.isRouteZoomedRef = FALSE])

\* calculateRoute rejects: the error is logged
RouteReject(i) ==
  Becomes([State EXCEPT !.pendingRoute = Settled(@, i, FALSE)])

\* a searchByText that stored every result list, the empty one too
SearchResolveStoresResult(i) ==
  LET r == pendingSearch[i]
      res == SearchResult(r.text)
      rest == [State EXCEPT !.pendingSearch = Settled(@, i, TRUE),
                            !.latestSuggestions = IF r.superseded THEN @ ELSE res]
      s == [rest EXCEPT !.suggestions = res, !.hasSuggestions = TRUE]
  IN Becomes(InputsOnlyRender(s))

\* Geo.searchByText resolves: the rest of searchByText runs
SearchResolve(i) ==
  LET r == pendingSearch[i]
      res == SearchResult(r.text)
      shown == IF Len(res) > 0 THEN res ELSE <<NoResultFound>>
      rest == [State EXCEPT !.pendingSearch = Settled(@, i, TRUE),
                            !.latestSuggestions = IF r.superseded THEN @ ELSE shown]
      s == [rest EXCEPT !.suggestions = shown, !.hasSuggestions = TRUE]
  IN Becomes(InputsOnlyRender(s))

\* Geo.searchByText rejects: the error is logged
SearchReject(i) ==
  Becomes([State EXCEPT !.pendingSearch = Settled(@, i, FALSE)])

\* the user clicks the k-th suggestion
ResultClick(k) ==
  /\ mounted
  /\ LET s == handleResultClick(State, suggestions[k])
     IN Becomes(IF Listening("Markers") THEN Commit(s, {"markers"})
                ELSE InputsOnlyRender(s))

\* the user clicks the swap icon, shown when there are two inputs
SwapClick ==
  /\ mounted
  /\ Len(InputsList(markers, isRouting)) = 2
  /\ Listening("Markers")
  /\ Becomes(Commit(handleMarkers(State, "swapMarkers", Undefined, Undefined), {"markers"}))

\* a component dispatches closeToast on the Markers channel
CloseToast ==
  /\ Listening("Markers")
  /\ LET s == handleMarkers(State, "closeToast", Undefined, Undefined)
     IN Becomes(Commit(s, Changed(State, s)))

\* a component dispatches a Routing event that replaces no object
RoutingEvent(event, data) ==
  /\ Listening("Routing")
  /\ LET s == handleRouting(State, event, data, Undefined)
     IN Becomes(Commit(s, Changed(State, s)))

\* a component dispatches changeAvoidances as source: the options are copied
ChangeAvoidances(source, key, value) ==
  /\ Listening("Routing")
  /\ LET s == handleRouting(State, "changeAvoidances", [key |-> key, value |-> value], source)
     IN Becomes(Commit(s, IF source = RoutingModesEnum.CAR THEN {"carOptions"}
                          ELSE IF source = RoutingModesEnum.TRUCK THEN {"truckOptions"}
                          ELSE {}))

\* a component dispatches changeTruckOptions with a new object for key
ChangeTruckOptions(key, data) ==
  /\ Listening("Routing")
  /\ Becomes(Commit(handleRouting(State, "changeTruckOptions", data, key), {"truckOptions"}))

\* a component dispatches changeUnits
ChangeUnits(data) ==
  /\ Listening("Routing")
  /\ LET s == handleRouting(State, "changeUnits", data, Undefined)
     IN Becomes(Commit(s, IF data # units THEN Changed(State, s) \cup {"truckOptions"} ELSE {}))

\* the user moves the map: onViewportChange, or update on the Viewport channel
ViewportChange(v) ==
  /\ mounted
  /\ v # viewport
  /\ Becomes(Commit(handleViewport(State, "update", v), {"viewport"}))

\* useDebounce(viewport, 500) delivers the viewport
ViewportDebounce ==
  /\ mounted
  /\ debouncedViewport # viewport
  /\ Becomes(Commit([State EXCEPT !.debouncedViewport = viewport], {"debouncedViewport"}))

\* the user types text into the i-th input
TypeText(i, text) ==
  /\ mounted
  /\ inputs[i].value # text
  /\ Becomes([State EXCEPT !.inputs[i].value = text])

\* useDebounce(value, 1000) of the i-th input delivers the value, and the
\* effect of that input runs
ValueDebounce(i) ==
  /\ mounted
  /\ inputs[i].debouncedValue # inputs[i].value
  /\ LET s == [State EXCEPT !.inputs[i].debouncedValue = inputs[i].value]
     IN Becomes(InputsOnlyRender(InputEffect(s, i)))

\* the user presses Escape in the i-th input: handleExitInput
EscapeKey(i) ==
  /\ mounted
  /\ LET s == [State EXCEPT !.inputs[i].value = inputs[i].defaultValue,
                            !.suggestions = << >>, !.hasSuggestions = FALSE]
     IN Becomes(InputsOnlyRender([s EXCEPT !.latestSuggestions = << >>]))

\* React unmounts the App
Unmount ==
  /\ mounted
  /\ Becomes(Unmounted(State))

\* the sources of a changeAvoidances message
AvoidanceSources == {RoutingModesEnum.CAR, RoutingModesEnum.TRUCK, RoutingModesEnum.WALKING}

PanViewports == {<<"pan", k>> : k \in 1..MaxPan}

\* the objects a changeTruckOptions message carries
TruckData == {[Size |-> 1, Unit |-> u] : u \in {"Kilograms", "Pounds"}}

Init ==
  /\ viewport = HomeViewport
  /\ markers = defaultState.markers
  /\ isRouting = defaultState.isRouting
  /\ route = defaultState.route
  /\ routingMode = defaultState.routingMode
  /\ truckOptions = defaultState.truckOptions
  /\ carOptions = defaultState.carOptions
  /\ departureTime = defaultState.departureTime
  /\ distanceUnit = defaultState.distanceUnit
  /\ units = defaultState.units
  /\ isRouteZoomedRef = FALSE
  /\ isPointZoomed = FALSE
  /\ debouncedViewport = HomeViewport
  /\ heap = InitialHeap
  /\ mounted = TRUE
  /\ listeners = HubSubscribe([c \in HubChannels |-> << >>])
  /\ pendingGeocode = << >>
  /\ pendingRoute = << >>
  /\ pendingSearch = << >>
  /\ latestRoute = defaultState.route
  /\ latestSuggestions = << >>
  /\ suggestions = << >>
  /\ focusedInputIdx = -1
  /\ isDirtyRef = FALSE
  /\ hasSuggestions = FALSE
  /\ inputs = <<[key |-> <<"0">>, value |-> << >>, debouncedValue |-> << >>,
                 defaultValue |-> << >>]>>

(***************************************************************************)
(* The specifications.  The whole program is too large to explore at once: *)
(* each specification is the program with the user doing one kind of       *)
(* thing.  Spec: the user clicks the map, swaps the markers, starts and    *)
(* ends routing and closes the toast, and the place index answers or       *)
(* fails; the route calculator has not answered yet.                       *)
(***************************************************************************)
Next ==
  \/ \E p \in Places : MapClick(p)
  \/ \E i \in DOMAIN pendingGeocode : GeocodeResolve(i)
  \/ \E i \in DOMAIN pendingGeocode : GeocodeReject(i)
  \/ SwapClick
  \/ CloseToast
  \/ RoutingEvent("startRouting", Undefined)
  \/ RoutingEvent("endRouting", Undefined)
  \/ Unmount

Spec == Init /\ [][Next]_vars

\* SpecRoute: the user clicks the map, starts routing, swaps the markers and
\* closes the toast, and the route calculator answers or fails
NextRoute ==
  \/ \E p \in Places : MapClick(p)
  \/ \E i \in DOMAIN pendingGeocode : GeocodeResolve(i)
  \/ \E i \in DOMAIN pendingRoute : RouteResolve(i)
  \/ \E i \in DOMAIN pendingRoute : RouteReject(i)
  \/ SwapClick
  \/ RoutingEvent("startRouting", Undefined)
  \/ CloseToast

SpecRoute == Init /\ [][NextRoute]_vars

\* SpecClicks: in routing mode or not, the user clicks the map, also before
\* the place index has answered the click before, and swaps the markers
NextClicks ==
  \/ \E p \in Places : MapClick(p)
  \/ \E p \in Places : MapClickAgain(p)
  \/ \E i \in DOMAIN pendingGeocode : GeocodeResolve(i)
  \/ SwapClick
  \/ RoutingEvent("startRouting", Undefined)

SpecClicks == Init /\ [][NextClicks]_vars

\* SpecZoom: the user clicks the map, starts routing, swaps the markers and
\* moves the map, and the route calculator answers
NextZoom ==
  \/ \E p \in Places : MapClick(p)
  \/ \E i \in DOMAIN pendingGeocode : GeocodeResolve(i)
  \/ \E i \in DOMAIN pendingRoute : RouteResolve(i)
  \/ SwapClick
  \/ RoutingEvent("startRouting", Undefined)
  \/ \E v \in PanViewports : ViewportChange(v)
  \/ ViewportDebounce

SpecZoom == Init /\ [][NextZoom]_vars

\* SpecPoint: the user clicks the map, starts routing and moves the map, and
\* the place index answers or fails
NextPoint ==
  \/ \E p \in Places : MapClick(p)
  \/ \E i \in DOMAIN pendingGeocode : GeocodeResolve(i)
  \/ \E i \in DOMAIN pendingGeocode : GeocodeReject(i)
  \/ RoutingEvent("startRouting", Undefined)
  \/ \E v \in PanViewports : ViewportChange(v)
  \/ ViewportDebounce

SpecPoint == Init /\ [][NextPoint]_vars

\* SpecOptions: the user sets two markers in routing mode and changes the
\* routing mode, the avoidances and the units, and the route calculator
\* answers
NextOptions ==
  \/ \E p \in Places : MapClick(p)
  \/ \E i \in DOMAIN pendingGeocode : GeocodeResolve(i)
  \/ \E i \in DOMAIN pendingRoute : RouteResolve(i)
  \/ RoutingEvent("startRouting", Undefined)
  \/ \E m \in {RoutingModesEnum.CAR, RoutingModesEnum.TRUCK} :
       RoutingEvent("changeRoutingMode", m)
  \/ \E source \in AvoidanceSources, value \in BOOLEAN :
       ChangeAvoidances(source, "AvoidTolls", value)
  \/ \E u \in {"metric", "imperial"} : ChangeUnits(u)

SpecOptions == Init /\ [][NextOptions]_vars

\* SpecInputs: the user types into the input, presses Escape and moves the
\* map, and the place index answers the searches or fails
NextInputs ==
  \/ \E i \in DOMAIN inputs, text \in TypedText : TypeText(i, text)
  \/ \E i \in DOMAIN inputs : ValueDebounce(i)
  \/ \E i \in DOMAIN inputs : EscapeKey(i)
  \/ \E i \in DOMAIN pendingSearch : SearchResolve(i)
  \/ \E i \in DOMAIN pendingSearch : SearchReject(i)
  \/ \E v \in PanViewports : ViewportChange(v)
  \/ ViewportDebounce

SpecInputs == Init /\ [][NextInputs]_vars

\* SpecSuggest: the user types one text into the inputs, picks suggestions,
\* starts routing and closes the toast, and the place index answers
NextSuggest ==
  \/ \E i \in DOMAIN inputs : TypeText(i, <<"a">>)
  \/ \E i \in DOMAIN inputs : ValueDebounce(i)
  \/ \E i \in DOMAIN pendingSearch : SearchResolve(i)
  \/ \E k \in DOMAIN suggestions : ResultClick(k)
  \/ RoutingEvent("startRouting", Undefined)
  \/ CloseToast

SpecSuggest == Init /\ [][NextSuggest]_vars

\* SpecRouting: components dispatch the events of the Routing channel and
\* close the toast
NextRouting ==
  \/ RoutingEvent("startRouting", Undefined)
  \/ RoutingEvent("endRouting", Undefined)
  \/ \E m \in {RoutingModesEnum.CAR, RoutingModesEnum.TRUCK} :
       RoutingEvent("changeRoutingMode", m)
  \/ \E time \in 1..MaxTime : RoutingEvent("changeDepartureTime", time)
  \/ \E u \in {"Kilometers", "Miles"} : RoutingEvent("changeDistanceUnit", u)
  \/ \E source \in {RoutingModesEnum.CAR, RoutingModesEnum.TRUCK}, value \in BOOLEAN :
       ChangeAvoidances(source, "AvoidTolls", value)
  \/ \E key \in {"Weight", "Dimensions"}, d \in TruckData : ChangeTruckOptions(key, d)
  \/ \E u \in {"metric", "imperial"} : ChangeUnits(u)
  \/ CloseToast

SpecRouting == Init /\ [][NextRouting]_vars

(***************************************************************************)
(* The properties.                                                         *)
(***************************************************************************)
\* m carries a coordinate: geometry.point
HasPoint(m) ==
  /\ "geometry" \in ObjectKeys(m)
  /\ "point" \in ObjectKeys(m.geometry)

\* C1: once every calculateRoute request has settled, route holds the
\* response of the request made last among those that succeeded (and its
\* start value when none succeeded since the last reset)
C1_RouteIsLatestResponse ==
  pendingRoute = << >> => route = latestRoute
\* C2: when Geo.searchByCoordinates rejects, the rest of the handler leaves
\* markers and the other state of App as they were (as long as App is not
\* unmounted by an error)
C2_FailedGeocodeChangesNothing ==
  [][(\E i \in DOMAIN pendingGeocode : GeocodeReject(i)) =>
       (mounted' => UNCHANGED <<markers, isRouting, route, routingMode, truckOptions,
                                carOptions, departureTime, distanceUnit, units,
                                viewport>>)]_vars

\* C3: when calculateRoute rejects, route, markers, the routing options and
\* isRouteZoomedRef stay as they were, and no request is made: the requests
\* in flight are one fewer
C3_FailedRouteChangesNothing ==
  [][(\E i \in DOMAIN pendingRoute : RouteReject(i)) =>
       /\ UNCHANGED <<route, markers, routingMode, truckOptions, carOptions,
                      departureTime, distanceUnit, isRouteZoomedRef>>
       /\ Len(pendingRoute') = Len(pendingRoute) - 1]_vars

\* the request made for the two markers shown has failed: it is no longer in
\* flight and no route was stored
C3_RouteRejected ==
  /\ mounted
  /\ Len(markers) = 2
  /\ \A i \in DOMAIN markers : HasPoint(markers[i])
  /\ pendingRoute = << >>
  /\ route = defaultState.route

\* C4: every entry of markers is the placeholder {} or carries a coordinate
C4_MarkersCarryCoordinates ==
  \A i \in DOMAIN markers : markers[i] = EmptyObject \/ HasPoint(markers[i])

\* C7: while App is mounted each Hub channel has exactly one listener of App,
\* the handler of the latest render, and after unmount it has none
C7_OneListenerPerChannel ==
  \A channel \in HubChannels :
    listeners[channel] = IF mounted THEN <<"latest">> ELSE << >>

\* App has rendered again several times: for routing mode and for each of
\* two markers
C7_RenderedAgain ==
  /\ mounted
  /\ isRouting
  /\ Len(markers) = 2
\* C5: once every Geo.searchByText request has settled, suggestions holds
\* the result of the search made last among those that succeeded
C5_SuggestionsAreLatestResponse ==
  pendingSearch = << >> => suggestions = latestSuggestions

\* C6: when Geo.searchByText rejects, suggestions and hasSuggestions stay as
\* they were; when it resolves, hasSuggestions is true and suggestions is the
\* result list, or the single entry "No result found for this address." when
\* that list is empty
C6_SearchOutcome ==
  [][\A i \in DOMAIN pendingSearch :
       /\ SearchReject(i) => UNCHANGED <<suggestions, hasSuggestions>>
       /\ SearchResolve(i) =>
            /\ hasSuggestions'
            /\ suggestions' = IF SearchResult(pendingSearch[i].text) # << >>
                              THEN SearchResult(pendingSearch[i].text)
                              ELSE <<NoResultFound>>]_vars

\* a search has succeeded with an empty result list
C6_NoResultShown ==
  /\ hasSuggestions
  /\ suggestions = <<NoResultFound>>
  /\ pendingSearch = << >>

\* C8: a search is made only in the step in which the debounced text of an
\* input changes
C8_SearchOnlyOnTextChange ==
  [][Len(pendingSearch') > Len(pendingSearch) =>
       \E i \in DOMAIN inputs \cap DOMAIN inputs' :
         inputs'[i].debouncedValue # inputs[i].debouncedValue]_vars
\* C9: calculateRoute is called only when markers has at least two entries,
\* each of them a non-empty object that carries a coordinate
C9_RouteOnlyForValidMarkers ==
  [][Len(pendingRoute') > Len(pendingRoute) =>
       /\ Len(markers') >= 2
       /\ \A i \in DOMAIN markers' :
            /\ markers'[i] \notin {Hole, Undefined, EmptyObject}
            /\ HasPoint(markers'[i])]_vars
\* what the fields of the options object read in the heap h: Weight and
\* Dimensions are read through their addresses
OptionsValue(options, h) ==
  [k \in DOMAIN options \ {"object"} |->
     IF k \in {"Weight", "Dimensions"} THEN h[options[k]] ELSE options[k]]

\* C10: a reset of the view (endRouting, closeToast) leaves isRouting,
\* markers, route, routingMode, truckOptions, carOptions and departureTime
\* with the values they had when the application started, and both zoom
\* flags false
C10_ResetRestoresStartValues ==
  [][(CloseToast \/ RoutingEvent("endRouting", Undefined)) =>
       /\ isRouting' = defaultState.isRouting
       /\ markers' = defaultState.markers
       /\ route' = defaultState.route
       /\ routingMode' = defaultState.routingMode
       /\ OptionsValue(truckOptions', heap') =
            OptionsValue(defaultState.truckOptions, InitialHeap)
       /\ OptionsValue(carOptions', heap') =
            OptionsValue(defaultState.carOptions, InitialHeap)
       /\ departureTime' = defaultState.departureTime
       /\ ~isRouteZoomedRef'
       /\ ~isPointZoomed']_vars
\* C11: when the application is not in routing mode, markers holds at most
\* one marker
C11_OneMarkerOutsideRouting ==
  ~isRouting => Len(markers) <= 1
\* C12: in routing mode, when the geocode of a map click resolves, the
\* clicked place is the origin; a single marker there was becomes the
\* destination, and of two markers only the origin is replaced
C12_ClickSetsOrigin ==
  [][\A i \in DOMAIN pendingGeocode :
       (GeocodeResolve(i) /\ pendingGeocode[i].isRouting /\ isRouting /\ mounted') =>
         LET new == SpreadWithSource(Place(pendingGeocode[i].lngLat), "map")
         IN /\ Len(markers) = 0 => markers' = <<new>>
            /\ Len(markers) = 1 => markers' = <<new, markers[1]>>
            /\ Len(markers) = 2 => markers' = <<new, markers[2]>>]_vars
\* C13: a map click outside routing mode while a marker exists only resets
\* the view: markers is empty and route the default afterwards, and no
\* geocode request is made
C13_ClickCleansUp ==
  [][\A p \in Places :
       ((MapClick(p) \/ MapClickAgain(p)) /\ ~isRouting /\ Len(markers) > 0) =>
         /\ markers' = << >>
         /\ route' = defaultState.route
         /\ pendingGeocode' = pendingGeocode
         /\ ~isRouting']_vars

\* outside routing mode a marker and a route are shown: the next map click
\* is one that cleans up
C13_MarkerAndRouteShown ==
  /\ mounted
  /\ ~isRouting
  /\ Len(markers) > 0
  /\ route # defaultState.route
\* C14: a route response that is stored flies the viewport to the bounding
\* box of that route, and no other step flies the viewport to a route: a
\* later change of the debounced viewport does not
C14_OneFlyToPerRoute ==
  [][/\ \A i \in DOMAIN pendingRoute :
          (RouteResolve(i) /\ mounted') =>
            /\ viewport' = <<"route", pendingRoute[i].positions>>
            /\ isRouteZoomedRef'
     /\ ~(\E i \in DOMAIN pendingRoute : RouteResolve(i)) =>
          (viewport' # viewport => viewport'[1] # "route")]_vars

\* a route is shown and was flown to, and after it the user has moved the
\* map and the debounced viewport has followed
C14_PannedAfterRoute ==
  /\ mounted
  /\ route # defaultState.route
  /\ isRouteZoomedRef
  /\ viewport[1] = "pan"
  /\ debouncedViewport = viewport

====
